---- MODULE Spec2Model ----
(***************************************************************************)
(* Model of src/src/bind_groups.rs: MaterialBindGroups, a two-level cache  *)
(* of wgpu bind group layouts and bind groups keyed by a hash of the       *)
(* texture-view handles and a shadow-presence flag.                        *)
(***************************************************************************)
EXTENDS Integers, Sequences, FiniteSets, TLC

\* ---------------------------------------------------------------- bounds
\* Texture-view handles the caller owns: 1..NumViews.
NumViews == 2
\* Longest texture_views slice passed to layout() / get_or_create().
MaxLen == 2
\* Comparison-sampler handles the caller may pass in a shadow pair.
NumSamplers == 1
\* Device calls the model follows: create_bind_group_layout, create_bind_group.
MaxLayoutCreates == 2
MaxBindGroupCreates == 2
\* Width of the modelled hasher output.  The program's is u64; the model
\* keeps the fold and its modulus at a width TLC's integers can hold.  At
\* this width no two of the modelled view lists collide.
ModelHashBits == 16
\* A hasher output narrow enough that different modelled view lists share a
\* hash, as different lists may share a u64.
NarrowHashBits == 2
\* Callers that may be inside get_or_create() at the same time.
NumCallers == 2

\* ------------------------------------------------- the external context
Views == 1..NumViews
Samplers == 1..NumSamplers
Callers == 1..NumCallers
\* The sampler created in new(): a handle distinct from the caller's.
MaterialSampler == 0

ViewLists == UNION {[1..n -> Views] : n \in 0..MaxLen}

\* get_or_create's `shadow: Option<(&Sampler, &TextureView)>`.
NoShadow == <<>>
ShadowPairs == Samplers \X Views
Shadows == {NoShadow} \cup ShadowPairs

Formats ==
    {"Rgba8Unorm", "R32Float", "Rgba8Uint", "Depth32Float", "Depth24PlusStencil8", "NV12"}
SampleCounts == {1, 4}
LayerCounts == {1, 2}
\* What layout() reads of a view's texture: format(), sample_count(),
\* depth_or_array_layers().
Textures ==
    [format : Formats, sample_count : SampleCounts, depth_or_array_layers : LayerCounts]
\* The textures a material scene binds in the cache-protocol specification.
SceneTextures ==
    { [format |-> "Rgba8Unorm", sample_count |-> 1, depth_or_array_layers |-> 1],
      [format |-> "NV12", sample_count |-> 1, depth_or_array_layers |-> 1] }

VARIABLES
    texOf,             \* view handle -> its texture's metadata (view.texture())
    device_features,   \* self.device.features(): is FLOAT32_FILTERABLE on
    hashBits,          \* width of the hasher's output
    layouts,           \* self.layouts: LayoutKey -> BindGroupLayout
    bind_groups,       \* self.bind_groups: MaterialBindGroupKey -> BindGroup
    deviceLayouts,     \* every layout create_bind_group_layout has returned
    deviceBindGroups,  \* every bind group create_bind_group has returned
    served,            \* (views, has_shadow) -> bind group get_or_create returned
                       \* since the last clear()
    discarded,         \* the (views, has_shadow) the last clear() dropped
    lastOp,            \* the call that ran last, its arguments, the device calls it made
    ret,               \* the reference that call returned
    halted,            \* the expect() at line 101 panicked
    callers,           \* caller -> where it stands inside get_or_create()
    overlapped         \* a caller entered get_or_create() while another was inside

vars ==
    <<texOf, device_features, hashBits, layouts, bind_groups, deviceLayouts,
      deviceBindGroups, served, discarded, lastOp, ret, halted, callers, overlapped>>

\* --------------------------------------------------------- key derivation
\* A hasher whose state forgets the order the views were fed in.
RECURSIVE HashFold_unordered(_, _)
HashFold_unordered(views, h) ==
    IF views = <<>>
    THEN h
    ELSE HashFold_unordered(Tail(views), (h + Head(views)) % (2 ^ hashBits))

\* DefaultHasher fed each view in order; finish() is the folded state.
RECURSIVE HashFold(_, _)
HashFold(views, h) ==
    IF views = <<>>
    THEN h
    ELSE HashFold(Tail(views), (h * (NumViews + 1) + Head(views)) % (2 ^ hashBits))

\* The key built without the has_shadow field of line 17.
MaterialBindGroupKey_without_flag(views, has_shadow) ==
    [views_hash |-> HashFold(views, 0), has_shadow |-> FALSE]

MaterialBindGroupKey_from_views(views, has_shadow) ==
    [views_hash |-> HashFold(views, 0), has_shadow |-> has_shadow]

LayoutKey_from_views(views, has_shadow) ==
    [layout_hash |-> HashFold(views, 0), has_shadow |-> has_shadow]

\* ------------------------------------------------------- shape inference
\* wgpu's TextureFormat::sample_type(aspect, device_features) on the
\* modelled formats; "None" is Option::None.
sample_type(format, aspect, features) ==
    CASE format = "Rgba8Unorm" -> "Float_filterable"
      [] format = "R32Float" ->
            IF features THEN "Float_filterable" ELSE "Float_unfilterable"
      [] format = "Rgba8Uint" -> "Uint"
      [] format = "Depth32Float" -> "Depth"
      [] format = "Depth24PlusStencil8" ->
            IF aspect = "DepthOnly" THEN "Depth"
            ELSE IF aspect = "StencilOnly" THEN "Uint" ELSE "None"
      [] format = "NV12" -> "None"

\* The all-aspect class alone, without the or_else of line 100.
format_sample_type_all_only(format) ==
    sample_type(format, "All", device_features)

\* Lines 97-100: the all-aspect class, or else the depth-only class.
format_sample_type(format) ==
    IF sample_type(format, "All", device_features) # "None"
    THEN sample_type(format, "All", device_features)
    ELSE sample_type(format, "DepthOnly", device_features)

\* The class passed through whatever the sample count.
demote_never(is_multisampled, st) == st

\* Lines 104-112: multisampled textures cannot use filtering.
demote(is_multisampled, st) ==
    IF is_multisampled
    THEN IF st \in {"Float_filterable", "Float_unfilterable"}
         THEN "Float_unfilterable"
         ELSE st
    ELSE st

\* The layer test off by one.
view_dimension_from_one(tex) ==
    IF tex.depth_or_array_layers >= 1 THEN "D2Array" ELSE "D2"

\* Lines 119-123: an array view for more than one layer.
view_dimension(tex) ==
    IF tex.depth_or_array_layers > 1 THEN "D2Array" ELSE "D2"

\* Lines 93-127: the layout entry pushed for one view.
texture_entry(view, binding) ==
    LET tex == texOf[view]
        is_multisampled == tex.sample_count > 1
    IN  [ binding |-> binding,
          visibility |-> "FRAGMENT",
          ty |-> [ kind |-> "Texture",
                   multisampled |-> is_multisampled,
                   view_dimension |-> view_dimension(tex),
                   sample_type |-> demote(is_multisampled, format_sample_type(tex.format)) ] ]

sampler_entry(binding, sampler_type) ==
    [ binding |-> binding,
      visibility |-> "FRAGMENT",
      ty |-> [kind |-> "Sampler", sampler_type |-> sampler_type] ]

\* The shadow slots without the `binding += 1` of line 139.
shadow_entries_same_binding(binding) ==
    << sampler_entry(binding, "Comparison"),
       [ binding |-> binding,
         visibility |-> "FRAGMENT",
         ty |-> [ kind |-> "Texture",
                  multisampled |-> FALSE,
                  view_dimension |-> "D2Array",
                  sample_type |-> "Depth" ] ] >>

\* Lines 133-150: the two trailing shadow slots.
shadow_entries(binding) ==
    << sampler_entry(binding, "Comparison"),
       [ binding |-> binding + 1,
         visibility |-> "FRAGMENT",
         ty |-> [ kind |-> "Texture",
                  multisampled |-> FALSE,
                  view_dimension |-> "D2Array",
                  sample_type |-> "Depth" ] ] >>

\* Lines 78-151: the entries Vec built on a layout-cache miss.
layout_entries(texture_views, has_shadow) ==
    LET n == Len(texture_views)
    IN  << sampler_entry(0, "Filtering") >>
        \o [i \in 1..n |-> texture_entry(texture_views[i], i)]
        \o (IF has_shadow THEN shadow_entries(n + 1) ELSE <<>>)

\* No expect(): a missing class never stops layout().
unsupported_never(texture_views) == FALSE

\* Line 101: expect() panics when some view's format has no class.
unsupported(texture_views) ==
    \E i \in 1..Len(texture_views) :
        format_sample_type(texOf[texture_views[i]].format) = "None"

\* ------------------------------------------------------------ the caches
\* HashMap::new() and HashMap::insert (an equal key's value is replaced).
EmptyMap == [k \in {} |-> 0]

Insert(map, key, value) ==
    [k \in DOMAIN map \cup {key} |-> IF k = key THEN value ELSE map[k]]

\* What a call returns when it returns no object.
NoRef == [kind |-> "none"]
Panicked == [kind |-> "panic"]

\* device.create_bind_group_layout: a fresh object each call.  Its id names
\* the request it was created for and how many the device made for it.
create_bind_group_layout(created, texture_views, has_shadow, entries) ==
    [ kind |-> "layout",
      id |-> [ views |-> texture_views,
               has_shadow |-> has_shadow,
               gen |-> 1 + Cardinality({l \in created :
                                          /\ l.id.views = texture_views
                                          /\ l.id.has_shadow = has_shadow}) ],
      entries |-> entries ]

\* device.create_bind_group: a fresh object each call, bound to `layout`.
create_bind_group(created, texture_views, shadow, layout_obj, entries) ==
    [ kind |-> "bind_group",
      id |-> [ views |-> texture_views,
               shadow |-> shadow,
               gen |-> 1 + Cardinality({g \in created :
                                          /\ g.id.views = texture_views
                                          /\ g.id.shadow = shadow}) ],
      layout |-> layout_obj,
      entries |-> entries ]

\* layout() without the contains_key test of line 77.
layout_no_lookup(texture_views, has_shadow) ==
    LET key == LayoutKey_from_views(texture_views, has_shadow)
    IN  IF unsupported(texture_views)
        THEN [ panic |-> TRUE, layouts |-> layouts, device |-> deviceLayouts,
               created |-> FALSE, ret |-> Panicked ]
        ELSE LET l == create_bind_group_layout(
                          deviceLayouts, texture_views, has_shadow,
                          layout_entries(texture_views, has_shadow))
             IN  [ panic |-> FALSE, layouts |-> Insert(layouts, key, l),
                   device |-> deviceLayouts \cup {l},
                   created |-> TRUE, ret |-> l ]

\* Lines 69-162: layout(), run from the current state.
layout(texture_views, has_shadow) ==
    LET key == LayoutKey_from_views(texture_views, has_shadow)
    IN  IF key \notin DOMAIN layouts
        THEN IF unsupported(texture_views)
             THEN [ panic |-> TRUE, layouts |-> layouts, device |-> deviceLayouts,
                    created |-> FALSE, ret |-> Panicked ]
             ELSE LET l == create_bind_group_layout(
                               deviceLayouts, texture_views, has_shadow,
                               layout_entries(texture_views, has_shadow))
                  IN  [ panic |-> FALSE, layouts |-> Insert(layouts, key, l),
                        device |-> deviceLayouts \cup {l},
                        created |-> TRUE, ret |-> l ]
        ELSE [ panic |-> FALSE, layouts |-> layouts, device |-> deviceLayouts,
               created |-> FALSE, ret |-> layouts[key] ]

\* The entries Vec with the shadow pair left out.
bind_group_entries_no_shadow(texture_views, shadow) ==
    LET n == Len(texture_views)
    IN  << [binding |-> 0, resource |-> [kind |-> "Sampler", handle |-> MaterialSampler]] >>
        \o [i \in 1..n |->
               [binding |-> i, resource |-> [kind |-> "TextureView", handle |-> texture_views[i]]]]

\* The entries Vec with the shadow view pushed before the shadow sampler.
bind_group_entries_view_first(texture_views, shadow) ==
    LET n == Len(texture_views)
    IN  << [binding |-> 0, resource |-> [kind |-> "Sampler", handle |-> MaterialSampler]] >>
        \o [i \in 1..n |->
               [binding |-> i, resource |-> [kind |-> "TextureView", handle |-> texture_views[i]]]]
        \o (IF shadow # NoShadow
            THEN << [binding |-> n + 1, resource |-> [kind |-> "TextureView", handle |-> shadow[2]]],
                    [binding |-> n + 2, resource |-> [kind |-> "Sampler", handle |-> shadow[1]]] >>
            ELSE <<>>)

\* Lines 178-211: the BindGroupEntry Vec built on an instance-cache miss.
bind_group_entries(texture_views, shadow) ==
    LET n == Len(texture_views)
    IN  << [binding |-> 0, resource |-> [kind |-> "Sampler", handle |-> MaterialSampler]] >>
        \o [i \in 1..n |->
               [binding |-> i, resource |-> [kind |-> "TextureView", handle |-> texture_views[i]]]]
        \o (IF shadow # NoShadow
            THEN << [binding |-> n + 1, resource |-> [kind |-> "Sampler", handle |-> shadow[1]]],
                    [binding |-> n + 2, resource |-> [kind |-> "TextureView", handle |-> shadow[2]]] >>
            ELSE <<>>)

\* get_or_create() without the contains_key test of line 174.
get_or_create_no_lookup(texture_views, shadow) ==
    LET has_shadow == shadow # NoShadow
        key == MaterialBindGroupKey_from_views(texture_views, has_shadow)
        lr == layout(texture_views, has_shadow)
    IN  IF lr.panic
        THEN [ panic |-> TRUE, layouts |-> layouts, bind_groups |-> bind_groups,
               deviceLayouts |-> deviceLayouts, deviceBindGroups |-> deviceBindGroups,
               layout_created |-> FALSE, bind_group_created |-> FALSE,
               ret |-> Panicked ]
        ELSE LET bg == create_bind_group(
                           deviceBindGroups, texture_views, shadow, lr.ret,
                           bind_group_entries(texture_views, shadow))
             IN  [ panic |-> FALSE, layouts |-> lr.layouts,
                   bind_groups |-> Insert(bind_groups, key, bg),
                   deviceLayouts |-> lr.device,
                   deviceBindGroups |-> deviceBindGroups \cup {bg},
                   layout_created |-> lr.created, bind_group_created |-> TRUE,
                   ret |-> bg ]

\* get_or_create() with an equality test of the cached instance's views
\* behind the hash lookup of line 174.
get_or_create_verified(texture_views, shadow) ==
    LET has_shadow == shadow # NoShadow
        key == MaterialBindGroupKey_from_views(texture_views, has_shadow)
    IN  IF key \in DOMAIN bind_groups /\ bind_groups[key].id.views = texture_views
        THEN [ panic |-> FALSE, layouts |-> layouts, bind_groups |-> bind_groups,
               deviceLayouts |-> deviceLayouts, deviceBindGroups |-> deviceBindGroups,
               layout_created |-> FALSE, bind_group_created |-> FALSE,
               ret |-> bind_groups[key] ]
        ELSE get_or_create_no_lookup(texture_views, shadow)

\* Lines 165-223: get_or_create(), run from the current state.
get_or_create(texture_views, shadow) ==
    LET has_shadow == shadow # NoShadow
        key == MaterialBindGroupKey_from_views(texture_views, has_shadow)
        lr == layout(texture_views, has_shadow)
    IN  IF key \notin DOMAIN bind_groups
        THEN IF lr.panic
             THEN [ panic |-> TRUE, layouts |-> layouts, bind_groups |-> bind_groups,
                    deviceLayouts |-> deviceLayouts, deviceBindGroups |-> deviceBindGroups,
                    layout_created |-> FALSE, bind_group_created |-> FALSE,
                    ret |-> Panicked ]
             ELSE LET bg == create_bind_group(
                                deviceBindGroups, texture_views, shadow, lr.ret,
                                bind_group_entries(texture_views, shadow))
                  IN  [ panic |-> FALSE, layouts |-> lr.layouts,
                        bind_groups |-> Insert(bind_groups, key, bg),
                        deviceLayouts |-> lr.device,
                        deviceBindGroups |-> deviceBindGroups \cup {bg},
                        layout_created |-> lr.created, bind_group_created |-> TRUE,
                        ret |-> bg ]
        ELSE [ panic |-> FALSE, layouts |-> layouts, bind_groups |-> bind_groups,
               deviceLayouts |-> deviceLayouts, deviceBindGroups |-> deviceBindGroups,
               layout_created |-> FALSE, bind_group_created |-> FALSE,
               ret |-> bind_groups[key] ]

\* --------------------------------------------------------------- actions
Op(op, texture_views, has_shadow, shadow, layout_created, bind_group_created) ==
    [ op |-> op, texture_views |-> texture_views, has_shadow |-> has_shadow,
      shadow |-> shadow, layout_created |-> layout_created,
      bind_group_created |-> bind_group_created ]

\* A caller outside get_or_create().
Idle == [pc |-> "idle"]

\* Lines 48-66: new(): both maps empty, nothing created but the sampler.
New(textures, features, bits) ==
    /\ texOf \in [Views -> textures]
    /\ device_features \in features
    /\ hashBits = bits
    /\ callers = [c \in Callers |-> Idle]
    /\ overlapped = FALSE
    /\ layouts = EmptyMap
    /\ bind_groups = EmptyMap
    /\ deviceLayouts = {}
    /\ deviceBindGroups = {}
    /\ served = EmptyMap
    /\ discarded = {}
    /\ lastOp = Op("new", <<>>, FALSE, NoShadow, FALSE, FALSE)
    /\ ret = NoRef
    /\ halted = FALSE

Init == New(SceneTextures, {FALSE}, ModelHashBits)

\* A caller runs layout(texture_views, has_shadow).
LayoutCall(texture_views, has_shadow) ==
    LET r == layout(texture_views, has_shadow)
    IN  /\ ~halted
        /\ Cardinality(r.device) <= MaxLayoutCreates
        /\ layouts' = r.layouts
        /\ deviceLayouts' = r.device
        /\ halted' = r.panic
        /\ ret' = r.ret
        /\ lastOp' = Op("layout", texture_views, has_shadow, NoShadow, r.created, FALSE)
        /\ UNCHANGED <<texOf, device_features, hashBits, bind_groups,
                       deviceBindGroups, served, discarded, callers, overlapped>>

\* A caller runs get_or_create(texture_views, shadow).
GetOrCreateCall(texture_views, shadow) ==
    LET r == get_or_create(texture_views, shadow)
        has_shadow == shadow # NoShadow
    IN  /\ ~halted
        /\ Cardinality(r.deviceLayouts) <= MaxLayoutCreates
        /\ Cardinality(r.deviceBindGroups) <= MaxBindGroupCreates
        /\ layouts' = r.layouts
        /\ bind_groups' = r.bind_groups
        /\ deviceLayouts' = r.deviceLayouts
        /\ deviceBindGroups' = r.deviceBindGroups
        /\ halted' = r.panic
        /\ ret' = r.ret
        /\ served' = IF r.panic THEN served
                      ELSE Insert(served, <<texture_views, has_shadow>>, r.ret)
        /\ lastOp' = Op("get_or_create", texture_views, has_shadow, shadow,
                        r.layout_created, r.bind_group_created)
        /\ UNCHANGED <<texOf, device_features, hashBits, discarded, callers, overlapped>>

\* clear() emptying both maps.
ClearCall_both_maps ==
    /\ ~halted
    /\ bind_groups' = EmptyMap
    /\ layouts' = EmptyMap
    /\ served' = EmptyMap
    /\ discarded' = DOMAIN served
    /\ ret' = NoRef
    /\ lastOp' = Op("clear", <<>>, FALSE, NoShadow, FALSE, FALSE)
    /\ UNCHANGED <<texOf, device_features, hashBits, deviceLayouts,
                   deviceBindGroups, halted, callers, overlapped>>

\* clear() emptying the layout map in place of the bind-group map.
ClearCall_layouts_only ==
    /\ ~halted
    /\ layouts' = EmptyMap
    /\ ret' = NoRef
    /\ lastOp' = Op("clear", <<>>, FALSE, NoShadow, FALSE, FALSE)
    /\ UNCHANGED <<texOf, device_features, hashBits, bind_groups, served, discarded,
                   deviceLayouts, deviceBindGroups, halted, callers, overlapped>>

\* Lines 226-228: clear() empties the bind-group map only.
ClearCall ==
    /\ ~halted
    /\ bind_groups' = EmptyMap
    /\ served' = EmptyMap
    /\ discarded' = DOMAIN served
    /\ ret' = NoRef
    /\ lastOp' = Op("clear", <<>>, FALSE, NoShadow, FALSE, FALSE)
    /\ UNCHANGED <<texOf, device_features, hashBits, layouts, deviceLayouts,
                   deviceBindGroups, halted, callers, overlapped>>

Next ==
    \/ \E tv \in ViewLists, hs \in BOOLEAN : LayoutCall(tv, hs)
    \/ \E tv \in ViewLists, sh \in Shadows : GetOrCreateCall(tv, sh)
    \/ ClearCall

Spec == Init /\ [][Next]_vars

\* Shape inference alone: every texture the device can describe, one
\* layout() call on the fresh cache.
InitInfer == New(Textures, BOOLEAN, ModelHashBits)

InferCall(texture_views, has_shadow) ==
    /\ lastOp.op = "new"
    /\ LayoutCall(texture_views, has_shadow)

NextInfer == \E tv \in ViewLists, hs \in BOOLEAN : InferCall(tv, hs)

SpecInfer == InitInfer /\ [][NextInfer]_vars

\* The cache protocol over a hasher narrow enough to collide.
\* The scene's textures that layout() supports: a collision needs no
\* unsupported format.
CollideTextures == {t \in SceneTextures : t.format = "Rgba8Unorm"}

InitCollide == New(CollideTextures, {FALSE}, NarrowHashBits)

\* Calls that look keys up; clear() looks none up.
NextCollide ==
    \/ \E tv \in ViewLists, hs \in BOOLEAN : LayoutCall(tv, hs)
    \/ \E tv \in ViewLists, sh \in Shadows : GetOrCreateCall(tv, sh)

SpecCollide == InitCollide /\ [][NextCollide]_vars

\* ----------------------------------------- get_or_create() step by step
\* Callers that share the cache and are not kept from running at once.
\* Each statement of get_or_create() is one step of its caller.
OthersInside(c) == \E d \in Callers \ {c} : callers[d].pc # "idle"

\* Line 174: the contains_key test.  On a hit line 222 returns the cached
\* instance; on a miss the caller goes on to create.
RaceCheck(c, texture_views, shadow) ==
    LET has_shadow == shadow # NoShadow
        key == MaterialBindGroupKey_from_views(texture_views, has_shadow)
    IN  /\ ~halted
        /\ callers[c].pc = "idle"
        /\ IF key \in DOMAIN bind_groups
           THEN /\ ret' = bind_groups[key]
                /\ lastOp' = Op("get_or_create", texture_views, has_shadow, shadow,
                                FALSE, FALSE)
                /\ UNCHANGED <<callers, overlapped>>
           ELSE /\ callers' = [callers EXCEPT ![c] =
                                  [pc |-> "missed", texture_views |-> texture_views,
                                   shadow |-> shadow]]
                /\ overlapped' = (overlapped \/ OthersInside(c))
                /\ UNCHANGED <<ret, lastOp>>
        /\ UNCHANGED <<texOf, device_features, hashBits, layouts, bind_groups,
                       deviceLayouts, deviceBindGroups, served, discarded, halted>>

\* Lines 176-217: the layout is resolved and create_bind_group is called.
RaceCreate(c) ==
    /\ ~halted
    /\ callers[c].pc = "missed"
    /\ LET texture_views == callers[c].texture_views
           shadow == callers[c].shadow
           lr == layout(texture_views, shadow # NoShadow)
           bg == create_bind_group(deviceBindGroups, texture_views, shadow, lr.ret,
                                   bind_group_entries(texture_views, shadow))
       IN  IF lr.panic
           THEN /\ halted' = TRUE
                /\ ret' = Panicked
                /\ UNCHANGED <<layouts, deviceLayouts, deviceBindGroups, callers>>
           ELSE /\ Cardinality(lr.device) <= MaxLayoutCreates
                /\ Cardinality(deviceBindGroups) < MaxBindGroupCreates
                /\ layouts' = lr.layouts
                /\ deviceLayouts' = lr.device
                /\ deviceBindGroups' = deviceBindGroups \cup {bg}
                /\ callers' = [callers EXCEPT ![c] =
                                  [pc |-> "created", texture_views |-> texture_views,
                                   shadow |-> shadow, bind_group |-> bg]]
                /\ UNCHANGED <<ret, halted>>
    /\ UNCHANGED <<texOf, device_features, hashBits, bind_groups, served,
                   discarded, lastOp, overlapped>>

\* The maps a HashMap insert may leave behind.  With exclusive access it
\* is the map with the entry set; an insert that runs while the map is
\* shared unsynchronized is a data race, whose update may also be lost.
InsertOutcomes(map, key, value) ==
    IF overlapped THEN {Insert(map, key, value), map} ELSE {Insert(map, key, value)}

\* The caller leaving get_or_create() without the insert of line 219.
RaceInsert_no_insert(c) ==
    /\ ~halted
    /\ callers[c].pc = "created"
    /\ ret' = callers[c].bind_group
    /\ lastOp' = Op("get_or_create", callers[c].texture_views,
                    callers[c].shadow # NoShadow, callers[c].shadow, FALSE, TRUE)
    /\ callers' = [callers EXCEPT ![c] = Idle]
    /\ UNCHANGED <<texOf, device_features, hashBits, layouts, bind_groups,
                   deviceLayouts, deviceBindGroups, served, discarded, halted,
                   overlapped>>

\* Lines 219-222: the instance is inserted under the key and read back.
RaceInsert(c) ==
    /\ ~halted
    /\ callers[c].pc = "created"
    /\ LET has_shadow == callers[c].shadow # NoShadow
           key == MaterialBindGroupKey_from_views(callers[c].texture_views, has_shadow)
       IN  /\ \E m \in InsertOutcomes(bind_groups, key, callers[c].bind_group) :
                 /\ bind_groups' = m
                 /\ IF key \in DOMAIN m
                    THEN ret' = m[key] /\ halted' = FALSE
                    ELSE ret' = Panicked /\ halted' = TRUE
           /\ lastOp' = Op("get_or_create", callers[c].texture_views, has_shadow,
                           callers[c].shadow, FALSE, TRUE)
    /\ callers' = [callers EXCEPT ![c] = Idle]
    /\ UNCHANGED <<texOf, device_features, hashBits, layouts, deviceLayouts,
                   deviceBindGroups, served, discarded, overlapped>>

NextRace ==
    \/ \E c \in Callers, tv \in ViewLists, sh \in Shadows : RaceCheck(c, tv, sh)
    \/ \E c \in Callers : RaceCreate(c)
    \/ \E c \in Callers : RaceInsert(c)

SpecRace == Init /\ [][NextRace]_vars

\* ================================================================ claims
\* The request a get_or_create call is for: its views and shadow presence.
Request(op) == <<op.texture_views, op.has_shadow>>

\* C1: over any sequence of layout(), get_or_create() and clear() calls the
\* device creates at most one layout for each (ordered view list,
\* has_shadow), and every layout() call returns the layout that this one
\* creation for its own views and flag produced.
C1_LayoutCreatedOnce ==
    /\ \A tv \in ViewLists, hs \in BOOLEAN :
          Cardinality({l \in deviceLayouts :
                          l.id.views = tv /\ l.id.has_shadow = hs}) <= 1
    /\ (lastOp.op = "layout" /\ ~halted) =>
          /\ ret \in deviceLayouts
          /\ ret.id.views = lastOp.texture_views
          /\ ret.id.has_shadow = lastOp.has_shadow

\* A layout() call served from the cache after get_or_create() and clear()
\* ran, with two layouts created so far.
C1_Witness ==
    /\ lastOp.op = "layout"
    /\ ~lastOp.layout_created
    /\ ret \in deviceLayouts
    /\ Cardinality(deviceLayouts) = 2
    /\ deviceBindGroups # {}
    /\ DOMAIN bind_groups = {}

\* The step is get_or_create() for a request already served.
StepRepeats ==
    /\ lastOp'.op = "get_or_create"
    /\ Request(lastOp') \in DOMAIN served

SameInstanceNoCreate ==
    /\ ret' = served[Request(lastOp')]
    /\ deviceBindGroups' = deviceBindGroups

\* C2: a get_or_create() call for views and a shadow flag that
\* get_or_create() already served since the last clear() returns the same
\* bind group and makes no create_bind_group call.
C2_InstanceReuse == [][StepRepeats => SameInstanceNoCreate]_vars

\* A get_or_create() call that returned a cached bind group.
C2_Witness ==
    /\ lastOp.op = "get_or_create"
    /\ ~lastOp.bind_group_created
    /\ ret \in deviceBindGroups
    /\ Request(lastOp) \in DOMAIN served
    /\ Cardinality(DOMAIN bind_groups) = 2

\* The step is clear().
StepIsClear == lastOp'.op = "clear"

ClearKeepsLayouts ==
    /\ DOMAIN bind_groups' = {}
    /\ layouts' = layouts
    /\ deviceLayouts' = deviceLayouts

\* The step is the first get_or_create() since clear() for a dropped request.
StepRecreates ==
    /\ lastOp'.op = "get_or_create"
    /\ Request(lastOp') \in discarded
    /\ Request(lastOp') \notin DOMAIN served

NewInstanceOldLayout ==
    /\ ret' \notin deviceBindGroups
    /\ deviceBindGroups' = deviceBindGroups \cup {ret'}
    /\ bind_groups'[MaterialBindGroupKey_from_views(
                       lastOp'.texture_views, lastOp'.has_shadow)] = ret'
    /\ deviceLayouts' = deviceLayouts
    /\ layouts' = layouts

\* C3: clear() leaves the bind-group map empty and the layout map as it
\* was; the first get_or_create() afterwards for a request the clear
\* dropped makes one create_bind_group call, for an object the device had
\* not returned before, and no create_bind_group_layout call.
C3_ClearSemantics ==
    [][ /\ StepIsClear => ClearKeepsLayouts
        /\ StepRecreates => NewInstanceOldLayout ]_vars

\* A get_or_create() after clear() that made the second bind group for the
\* same arguments and created no layout.
C3_Witness ==
    /\ lastOp.op = "get_or_create"
    /\ lastOp.bind_group_created
    /\ ~lastOp.layout_created
    /\ Request(lastOp) \in discarded
    /\ ret.kind = "bind_group"
    /\ ret.id.gen = 2
    /\ Cardinality(deviceLayouts) = 1

\* The shape layout() infers for one view: sample class, multisample flag
\* and dimensionality.
ViewShape(view) == texture_entry(view, 0).ty

SameShapes(tv1, tv2) ==
    /\ Len(tv1) = Len(tv2)
    /\ \A i \in 1..Len(tv1) : ViewShape(tv1[i]) = ViewShape(tv2[i])

\* C4: a layout() call creates a layout only when no layout exists yet for
\* a view list with the same shadow flag and the same per-slot shapes:
\* lists that differ only in their handles share one Shape Key and one
\* layout.
C4_ShapeKeyReuse ==
    (lastOp.op = "layout" /\ lastOp.layout_created) =>
        \A l \in deviceLayouts \ {ret} :
            ~(/\ l.id.has_shadow = lastOp.has_shadow
              /\ SameShapes(l.id.views, lastOp.texture_views))

\* C5: every bind group the device ever created was created against a
\* layout the device created, with as many slots as the bind group has
\* entries, binding indices 0..n-1 on both sides, and a sampler slot
\* exactly where the entry is a sampler.
C5_InstanceMatchesLayout ==
    \A g \in deviceBindGroups :
        /\ g.layout \in deviceLayouts
        /\ Len(g.layout.entries) = Len(g.entries)
        /\ \A i \in 1..Len(g.entries) :
              /\ g.entries[i].binding = i - 1
              /\ g.layout.entries[i].binding = i - 1
              /\ (g.entries[i].resource.kind = "Sampler")
                    <=> (g.layout.entries[i].ty.kind = "Sampler")
              /\ (g.entries[i].resource.kind = "TextureView")
                    <=> (g.layout.entries[i].ty.kind = "Texture")

\* Two bind groups created, one after a clear(), one with a shadow pair on
\* two views.
C5_Witness ==
    /\ Cardinality(deviceBindGroups) = 2
    /\ DOMAIN bind_groups # {}
    /\ discarded # {}
    /\ \E g \in deviceBindGroups :
          /\ g.id.shadow # NoShadow
          /\ Len(g.id.views) = 2
          /\ Len(g.entries) = 5

Swap(tv, i, j) ==
    [k \in 1..Len(tv) |-> IF k = i THEN tv[j] ELSE IF k = j THEN tv[i] ELSE tv[k]]

\* C6: swapping two distinct views of a list gives a different Identity
\* Key, and get_or_create() returns a bind group made for exactly the
\* order it was called with, so the swapped order is never served the
\* instance cached for the original order.
C6_OrderSensitive ==
    /\ \A tv \in ViewLists, hs \in BOOLEAN :
          \A i, j \in 1..Len(tv) :
              tv[i] # tv[j] =>
                  MaterialBindGroupKey_from_views(Swap(tv, i, j), hs)
                      # MaterialBindGroupKey_from_views(tv, hs)
    /\ (lastOp.op = "get_or_create" /\ ~halted) =>
          /\ ret \in deviceBindGroups
          /\ ret.id.views = lastOp.texture_views

\* get_or_create() created an instance for a list while the instance for
\* the swapped list was cached under the same shadow flag.
C6_Witness ==
    /\ lastOp.op = "get_or_create"
    /\ lastOp.bind_group_created
    /\ Len(lastOp.texture_views) = 2
    /\ lastOp.texture_views[1] # lastOp.texture_views[2]
    /\ MaterialBindGroupKey_from_views(Swap(lastOp.texture_views, 1, 2), lastOp.has_shadow)
          \in DOMAIN bind_groups
    /\ ret.id.views = lastOp.texture_views

IsTextureSlot(e) == e.ty.kind = "Texture"

\* C7: a created layout for N views has N + 3 slots with a shadow (a
\* filtering sampler, N textures, a comparison sampler, a depth array
\* texture) and N + 1 without; bindings count up from 0 and every slot is
\* fragment-visible.
C7_SlotPlacement ==
    \A l \in deviceLayouts :
        LET n == Len(l.id.views)
            e == l.entries
        IN  /\ Len(e) = IF l.id.has_shadow THEN n + 3 ELSE n + 1
            /\ \A i \in 1..Len(e) :
                  e[i].binding = i - 1 /\ e[i].visibility = "FRAGMENT"
            /\ e[1].ty = [kind |-> "Sampler", sampler_type |-> "Filtering"]
            /\ \A i \in 2..(n + 1) : IsTextureSlot(e[i])
            /\ l.id.has_shadow =>
                  /\ e[n + 2].ty = [kind |-> "Sampler", sampler_type |-> "Comparison"]
                  /\ e[n + 3].ty = [ kind |-> "Texture", multisampled |-> FALSE,
                                     view_dimension |-> "D2Array",
                                     sample_type |-> "Depth" ]

\* A layout created for two views with the shadow slots.
C7_Witness ==
    \E l \in deviceLayouts :
        /\ l.id.has_shadow
        /\ Len(l.id.views) = 2
        /\ Len(l.entries) = 5
        /\ l.entries[5].binding = 4

\* A view whose format has a class under neither aspect.
NoClass(view) ==
    /\ sample_type(texOf[view].format, "All", device_features) = "None"
    /\ sample_type(texOf[view].format, "DepthOnly", device_features) = "None"

CachesUnchanged ==
    /\ layouts' = layouts
    /\ bind_groups' = bind_groups
    /\ deviceLayouts' = deviceLayouts
    /\ deviceBindGroups' = deviceBindGroups

\* The step is a call that misses on a view list holding such a view.
MissOnUnsupported ==
    /\ ~halted
    /\ lastOp'.op \in {"layout", "get_or_create"}
    /\ \E i \in 1..Len(lastOp'.texture_views) : NoClass(lastOp'.texture_views[i])
    /\ LayoutKey_from_views(lastOp'.texture_views, lastOp'.has_shadow)
          \notin DOMAIN layouts
    /\ (lastOp'.op = "get_or_create") =>
          (MaterialBindGroupKey_from_views(lastOp'.texture_views, lastOp'.has_shadow)
             \notin DOMAIN bind_groups)

\* C8: a layout() call that misses the layout map with a view of no
\* sample class, and a get_or_create() call that misses both maps with
\* one, halts with no device call and both maps as they were.
C8_UnsupportedHalts ==
    [][ /\ MissOnUnsupported => (halted' /\ ret' = Panicked /\ CachesUnchanged)
        /\ (~halted /\ halted') => CachesUnchanged ]_vars

\* get_or_create() halted with both maps holding earlier entries.
C8_Witness ==
    /\ halted
    /\ lastOp.op = "get_or_create"
    /\ \E i \in 1..Len(lastOp.texture_views) : NoClass(lastOp.texture_views[i])
    /\ DOMAIN layouts # {}
    /\ DOMAIN bind_groups # {}

\* The class the format reports: the all-aspect one, else the depth-only one.
ReportedClass(view) ==
    LET all == sample_type(texOf[view].format, "All", device_features)
    IN  IF all # "None"
        THEN all
        ELSE sample_type(texOf[view].format, "DepthOnly", device_features)

\* C9: in a created layout, the slot of a view with sample count > 1 is
\* multisampled, a float class becomes non-filterable float and any other
\* class is kept; the slot of a view with sample count 1 is not
\* multisampled and has the reported class.
C9_MultisampleDemotion ==
    \A l \in deviceLayouts :
        \A i \in 1..Len(l.id.views) :
            LET view == l.id.views[i]
                slot == l.entries[i + 1].ty
                class == ReportedClass(view)
            IN  IF texOf[view].sample_count > 1
                THEN /\ slot.multisampled
                     /\ slot.sample_type # "Float_filterable"
                     /\ class \in {"Float_filterable", "Float_unfilterable"}
                            => slot.sample_type = "Float_unfilterable"
                     /\ class \in {"Depth", "Uint"} => slot.sample_type = class
                ELSE /\ ~slot.multisampled
                     /\ slot.sample_type = class

\* A layout with a multisampled filterable-float view demoted and a
\* multisampled depth view kept.
C9_Witness ==
    \E l \in deviceLayouts :
        /\ Len(l.id.views) = 2
        /\ texOf[l.id.views[1]].sample_count > 1
        /\ ReportedClass(l.id.views[1]) = "Float_filterable"
        /\ l.entries[2].ty.sample_type = "Float_unfilterable"
        /\ texOf[l.id.views[2]].sample_count > 1
        /\ l.entries[3].ty.sample_type = "Depth"

\* C10: in a created layout, a view's slot is D2Array exactly when its
\* texture has more than one layer and D2 exactly when it has one.
C10_ArrayDimension ==
    \A l \in deviceLayouts :
        \A i \in 1..Len(l.id.views) :
            LET layers == texOf[l.id.views[i]].depth_or_array_layers
                dim == l.entries[i + 1].ty.view_dimension
            IN  /\ dim \in {"D2", "D2Array"}
                /\ (dim = "D2Array") <=> (layers > 1)
                /\ (dim = "D2") <=> (layers = 1)

\* A layout with an array slot for a layered texture beside a plain slot.
C10_Witness ==
    \E l \in deviceLayouts :
        /\ Len(l.id.views) = 2
        /\ texOf[l.id.views[1]].depth_or_array_layers > 1
        /\ l.entries[2].ty.view_dimension = "D2Array"
        /\ texOf[l.id.views[2]].depth_or_array_layers = 1
        /\ l.entries[3].ty.view_dimension = "D2"

\* Whether a slot list of a layout, or an entry list of a bind group, made
\* for n views carries the two trailing shadow slots.
HasShadowSlots(entries, n) == Len(entries) = n + 3

\* C11: the shadow flag is part of both keys: for one view list the keys
\* with and without a shadow differ, and get_or_create() returns an
\* instance, bound to a layout, with the two trailing shadow slots exactly
\* when the call supplied a shadow pair.
C11_ShadowFlagInKeys ==
    /\ \A tv \in ViewLists :
          /\ MaterialBindGroupKey_from_views(tv, TRUE)
                # MaterialBindGroupKey_from_views(tv, FALSE)
          /\ LayoutKey_from_views(tv, TRUE) # LayoutKey_from_views(tv, FALSE)
    /\ (lastOp.op = "get_or_create" /\ ~halted) =>
          LET n == Len(lastOp.texture_views)
          IN  /\ (ret.id.shadow # NoShadow) <=> lastOp.has_shadow
              /\ ret.layout.id.has_shadow <=> lastOp.has_shadow
              /\ HasShadowSlots(ret.entries, n) <=> lastOp.has_shadow
              /\ HasShadowSlots(ret.layout.entries, n) <=> lastOp.has_shadow
              /\ ~lastOp.has_shadow =>
                    (Len(ret.entries) = n + 1 /\ Len(ret.layout.entries) = n + 1)

\* get_or_create() without a shadow created an instance while the instance
\* with a shadow for the same views was cached.
C11_Witness ==
    /\ lastOp.op = "get_or_create"
    /\ ~lastOp.has_shadow
    /\ lastOp.bind_group_created
    /\ Len(lastOp.texture_views) = 1
    /\ MaterialBindGroupKey_from_views(lastOp.texture_views, TRUE) \in DOMAIN bind_groups
    /\ Len(ret.entries) = 2
    /\ Len(bind_groups[MaterialBindGroupKey_from_views(lastOp.texture_views, TRUE)].entries) = 4

\* C12: the instance get_or_create() returns to a call with a shadow pair
\* has that call's comparison sampler and that call's shadow view at its
\* two trailing slots, whether it was created or served from the cache.
C12_ShadowPairWired ==
    (lastOp.op = "get_or_create" /\ lastOp.has_shadow /\ ~halted) =>
        LET n == Len(lastOp.texture_views)
        IN  /\ Len(ret.entries) = n + 3
            /\ ret.entries[n + 2].resource
                  = [kind |-> "Sampler", handle |-> lastOp.shadow[1]]
            /\ ret.entries[n + 3].resource
                  = [kind |-> "TextureView", handle |-> lastOp.shadow[2]]

\* The entries get_or_create() is to assemble, written out slot by slot.
ExpectedEntries(tv, shadow) ==
    [i \in 1..(Len(tv) + (IF shadow # NoShadow THEN 3 ELSE 1)) |->
        [ binding |-> i - 1,
          resource |->
            IF i = 1 THEN [kind |-> "Sampler", handle |-> MaterialSampler]
            ELSE IF i <= Len(tv) + 1 THEN [kind |-> "TextureView", handle |-> tv[i - 1]]
            ELSE IF i = Len(tv) + 2 THEN [kind |-> "Sampler", handle |-> shadow[1]]
            ELSE [kind |-> "TextureView", handle |-> shadow[2]] ] ]

\* C13: a get_or_create() call that returns from an instance-cache miss has
\* created an instance whose entries are the default sampler at 0, the
\* views in input order at 1..N and, with a shadow pair, the caller's
\* sampler at N+1 and shadow view at N+2; the instance is bound to the
\* layout cached for the same views and flag and is stored under the
\* Identity Key.
C13_EntriesAssembled ==
    (lastOp.op = "get_or_create" /\ lastOp.bind_group_created) =>
        LET tv == lastOp.texture_views
            hs == lastOp.has_shadow
        IN  /\ ret.entries = ExpectedEntries(tv, lastOp.shadow)
            /\ LayoutKey_from_views(tv, hs) \in DOMAIN layouts
            /\ ret.layout = layouts[LayoutKey_from_views(tv, hs)]
            /\ ret.layout.id.views = tv
            /\ ret.layout.id.has_shadow = hs
            /\ MaterialBindGroupKey_from_views(tv, hs) \in DOMAIN bind_groups
            /\ bind_groups[MaterialBindGroupKey_from_views(tv, hs)] = ret

\* An instance created for two views in a given order with a shadow pair.
C13_Witness ==
    /\ lastOp.op = "get_or_create"
    /\ lastOp.bind_group_created
    /\ lastOp.has_shadow
    /\ lastOp.texture_views = <<2, 1>>
    /\ lastOp.shadow[2] = 2
    /\ Len(ret.entries) = 5

\* The keys of the call that makes the step.
StepBindGroupKey ==
    MaterialBindGroupKey_from_views(lastOp'.texture_views, lastOp'.has_shadow)

StepLayoutKey == LayoutKey_from_views(lastOp'.texture_views, lastOp'.has_shadow)

\* The step is get_or_create() for a key the bind-group map holds.
StepHits ==
    /\ ~halted
    /\ lastOp'.op = "get_or_create"
    /\ StepBindGroupKey \in DOMAIN bind_groups

HitChangesNothing ==
    /\ CachesUnchanged
    /\ ~halted'
    /\ ~lastOp'.layout_created
    /\ ~lastOp'.bind_group_created
    /\ ret' = bind_groups[StepBindGroupKey]

\* C14: a get_or_create() call whose Identity Key is cached makes no
\* create_bind_group_layout and no create_bind_group call, leaves both
\* maps as they were and returns the cached instance.
C14_HitChangesNothing == [][StepHits => HitChangesNothing]_vars

\* A hit with a shadow pair while both maps hold two entries.
C14_Witness ==
    /\ lastOp.op = "get_or_create"
    /\ lastOp.has_shadow
    /\ ~lastOp.bind_group_created
    /\ ~lastOp.layout_created
    /\ ret.kind = "bind_group"
    /\ Cardinality(DOMAIN bind_groups) = 2
    /\ Cardinality(DOMAIN layouts) = 2

\* The step is layout().
StepIsLayout == ~halted /\ lastOp'.op = "layout"

LayoutEffect ==
    /\ bind_groups' = bind_groups
    /\ deviceBindGroups' = deviceBindGroups
    /\ IF StepLayoutKey \in DOMAIN layouts
       THEN /\ layouts' = layouts
            /\ deviceLayouts' = deviceLayouts
            /\ ~halted'
            /\ ret' = layouts[StepLayoutKey]
       ELSE ~halted' =>
              /\ DOMAIN layouts' = DOMAIN layouts \cup {StepLayoutKey}
              /\ \A k \in DOMAIN layouts : layouts'[k] = layouts[k]
              /\ layouts'[StepLayoutKey] = ret'
              /\ ret' \notin deviceLayouts
              /\ deviceLayouts' = deviceLayouts \cup {ret'}

\* C15: layout() never changes the bind-group map; on a Shape Key hit it
\* leaves the layout map as it was, creates nothing and returns the cached
\* layout; a miss that returns adds the one entry for the requested key.
C15_LayoutEffect == [][StepIsLayout => LayoutEffect]_vars

\* layout() added a second entry to the layout map while the bind-group
\* map held an instance.
C15_Witness ==
    /\ lastOp.op = "layout"
    /\ lastOp.layout_created
    /\ Cardinality(DOMAIN layouts) = 2
    /\ Cardinality(DOMAIN bind_groups) = 1
    /\ ret = layouts[LayoutKey_from_views(lastOp.texture_views, lastOp.has_shadow)]

MapsGrowUntilClear ==
    /\ (lastOp.op = "new") => (DOMAIN layouts = {} /\ DOMAIN bind_groups = {})
    /\ \A k \in DOMAIN layouts :
          k \in DOMAIN layouts' /\ layouts'[k] = layouts[k]
    /\ IF lastOp'.op = "clear"
       THEN DOMAIN bind_groups' = {}
       ELSE \A k \in DOMAIN bind_groups :
              k \in DOMAIN bind_groups' /\ bind_groups'[k] = bind_groups[k]

\* C16: both maps are empty after new(); no step removes or replaces a
\* layout-map entry; a bind-group-map entry is removed only by clear(),
\* which removes them all.
C16_MapsGrowUntilClear == [][MapsGrowUntilClear]_vars

\* clear() ran on two cached instances and left two layouts.
C16_Witness ==
    /\ lastOp.op = "clear"
    /\ Cardinality(discarded) = 2
    /\ DOMAIN bind_groups = {}
    /\ Cardinality(DOMAIN layouts) = 2

\* C17: every key of the bind-group map has, in the layout map, a key with
\* the same views hash and the same has_shadow flag, also after clear().
C17_InstanceHasLayout ==
    \A k \in DOMAIN bind_groups :
        [layout_hash |-> k.views_hash, has_shadow |-> k.has_shadow] \in DOMAIN layouts

\* An instance cached after a clear() beside a layout made by layout().
C17_Witness ==
    /\ discarded # {}
    /\ Cardinality(DOMAIN bind_groups) = 1
    /\ Cardinality(DOMAIN layouts) = 2
    /\ lastOp.op = "layout"

\* A view whose format has no all-aspect class but a depth-only class.
FallbackOnly(view) ==
    /\ sample_type(texOf[view].format, "All", device_features) = "None"
    /\ sample_type(texOf[view].format, "DepthOnly", device_features) # "None"

\* C18: layout() does not halt on view lists whose formats all have a
\* class under one of the two aspects; the slot of a view with only a
\* depth-only class has that class, and the slot of a view with an
\* all-aspect class has the all-aspect class (non-filterable float when a
\* float one is multisampled).
C18_DepthFallback ==
    /\ (/\ lastOp.op = "layout"
         /\ \A i \in 1..Len(lastOp.texture_views) : ~NoClass(lastOp.texture_views[i]))
        => ~halted
    /\ \A l \in deviceLayouts :
          \A i \in 1..Len(l.id.views) :
              LET view == l.id.views[i]
                  slot == l.entries[i + 1].ty
                  all == sample_type(texOf[view].format, "All", device_features)
                  depth == sample_type(texOf[view].format, "DepthOnly", device_features)
              IN  /\ FallbackOnly(view) => slot.sample_type = depth
                  /\ all # "None" =>
                        slot.sample_type \in
                          {all, IF slot.multisampled /\ all = "Float_filterable"
                                THEN "Float_unfilterable" ELSE all}

\* A layout with a depth slot for a combined depth-stencil view, beside a
\* view whose class came from the all-aspect query.
C18_Witness ==
    /\ ~halted
    /\ \E l \in deviceLayouts :
          /\ Len(l.id.views) = 2
          /\ FallbackOnly(l.id.views[1])
          /\ l.entries[2].ty.sample_type = "Depth"
          /\ ~FallbackOnly(l.id.views[2])
          /\ l.entries[3].ty.sample_type = "Uint"

\* The step is get_or_create() for a list whose key the bind-group map
\* holds for another list.
StepCollides ==
    /\ ~halted
    /\ lastOp'.op = "get_or_create"
    /\ StepBindGroupKey \in DOMAIN bind_groups
    /\ bind_groups[StepBindGroupKey].id.views # lastOp'.texture_views

ServedOtherInstance ==
    /\ CachesUnchanged
    /\ ~halted'
    /\ ~lastOp'.layout_created
    /\ ~lastOp'.bind_group_created
    /\ ret' = bind_groups[StepBindGroupKey]

\* The step is layout() for a list whose key the layout map holds for
\* another list.
StepLayoutCollides ==
    /\ ~halted
    /\ lastOp'.op = "layout"
    /\ StepLayoutKey \in DOMAIN layouts
    /\ layouts[StepLayoutKey].id.views # lastOp'.texture_views

ServedOtherLayout ==
    /\ CachesUnchanged
    /\ ~halted'
    /\ ~lastOp'.layout_created
    /\ ret' = layouts[StepLayoutKey]

\* C19: a hash match with the same shadow flag is a hit with no equality
\* test behind it: get_or_create() for a view list whose key is cached for
\* a different list returns that list's instance and creates nothing, and
\* layout() likewise returns the other list's layout.
C19_CollisionIsHit ==
    [][ /\ StepCollides => ServedOtherInstance
        /\ StepLayoutCollides => ServedOtherLayout ]_vars

\* get_or_create() returned an instance built for another view list whose
\* layout has not the slots the requested list would get.
C19_Witness ==
    /\ lastOp.op = "get_or_create"
    /\ ~halted
    /\ ~lastOp.bind_group_created
    /\ ret.id.views # lastOp.texture_views
    /\ ret.layout.entries # layout_entries(lastOp.texture_views, lastOp.has_shadow)

\* The Identity Key of the request a bind group was created for.
KeyOf(bg) == MaterialBindGroupKey_from_views(bg.id.views, bg.id.shadow # NoShadow)

\* The device has made two bind groups for one Identity Key.
DuplicateObjects ==
    \E a \in deviceBindGroups, b \in deviceBindGroups : a # b /\ KeyOf(a) = KeyOf(b)

\* C20: get_or_create() checks, creates, then inserts, with no lock of its
\* own: two bind groups for one key exist only in runs where a caller
\* entered while another was between its check and its insert; runs whose
\* calls follow one another never make two.
C20_DuplicatesNeedOverlap == DuplicateObjects => overlapped

\* Both callers passed the contains_key test for one key and each holds a
\* bind group of its own that create_bind_group returned.
C20_Witness ==
    /\ callers[1].pc = "created"
    /\ callers[2].pc = "created"
    /\ callers[1].bind_group # callers[2].bind_group
    /\ KeyOf(callers[1].bind_group) = KeyOf(callers[2].bind_group)
    /\ KeyOf(callers[1].bind_group) \notin DOMAIN bind_groups
    /\ DuplicateObjects

====
